---- MODULE Spec2Model ----
(***************************************************************************)
(* Model of the Monitor logger (src/src/Monitor.ts, first class, lines     *)
(* 1-261): construction, the formatter, the ANSI stripper and the chained  *)
(* asynchronous file append.                                               *)
(*                                                                         *)
(* Strings are sequences of one-character tokens; the escape character     *)
(* \x1b is the token ESC.  The file system is a function from paths to     *)
(* contents: a path outside its domain does not exist.                     *)
(***************************************************************************)
EXTENDS Integers, Sequences, FiniteSets, TLC

VARIABLES args, monitor, chain, files, console, now, ncalls, nfaults, lastCall, unhandled, fmt

vars == <<args, monitor, chain, files, console, now, ncalls, nfaults, lastCall, unhandled, fmt>>

----------------------------------------------------------------------------
(* Bounds of the model                                                     *)

MaxCalls == 2
MaxFaults == 1
MaxClock == 1
MaxLabelLen == 2
MaxCap == 2
MaxMsgLen == 2

----------------------------------------------------------------------------
(* Characters and strings                                                  *)

ESC == "ESC"
NL == "\n"
Digits == {"0", "1", "2", "3", "4", "5", "6", "7", "8", "9"}
DigitChar(d) == <<"0", "1", "2", "3", "4", "5", "6", "7", "8", "9">>[d + 1]

\* absent argument / absent value, comparable with strings (sequences)
Undefined == <<"undefined">>
Null == <<"null">>

Spaces(n) == [j \in 1..n |-> " "]

\* String.prototype.padEnd(n) with the default pad character
PadEnd(s, n) == IF Len(s) >= n THEN s ELSE s \o Spaces(n - Len(s))

\* Number.prototype.toString().padStart(2, '0') for 0 <= v <= 99
PadStart2(v) == <<DigitChar(v \div 10), DigitChar(v % 10)>>

\* String.prototype.substring(0, n): a negative n counts as 0, n > length as length
Substring0(s, n) ==
  LET e == IF n < 0 THEN 0 ELSE IF n > Len(s) THEN Len(s) ELSE n
  IN  SubSeq(s, 1, e)

RECURSIVE TrimStart(_)
TrimStart(s) == IF s # <<>> /\ Head(s) = " " THEN TrimStart(Tail(s)) ELSE s

RECURSIVE TrimEnd(_)
TrimEnd(s) ==
  IF s # <<>> /\ s[Len(s)] = " " THEN TrimEnd(SubSeq(s, 1, Len(s) - 1)) ELSE s

\* String.prototype.trim()
Trim(s) == TrimEnd(TrimStart(s))

RECURSIVE Flatten(_)
Flatten(ss) == IF ss = <<>> THEN <<>> ELSE Head(ss) \o Flatten(Tail(ss))

\* all strings over the alphabet cs of length at most n
RECURSIVE StringsUpTo(_, _)
StringsUpTo(cs, n) ==
  IF n <= 0 THEN {<<>>}
  ELSE LET shorter == StringsUpTo(cs, n - 1)
       IN  shorter \cup {Append(s, c) : s \in shorter, c \in cs}

\* t occurs in s as a contiguous substring
Contains(s, t) ==
  \E p \in 1..(Len(s) - Len(t) + 1) : SubSeq(s, p, p + Len(t) - 1) = t

----------------------------------------------------------------------------
(* Constants of Monitor.ts                                                 *)

Levels == {"debug", "info", "warn", "error"}

LOG_LEVEL_ORDER ==
  [l \in Levels |->
     CASE l = "debug" -> 0 [] l = "info" -> 1 [] l = "warn" -> 2 [] l = "error" -> 3]

\* the symbol table, cut down to two of its 256 entries
SYMBOLS == {"S1", "S2"}

SEPARATOR_COLOR == <<ESC, "[", "9", "0", "m">>
TIME_COLOR == <<ESC, "[", "9", "0", "m">>

COLOR_SCHEMES ==
  [l \in Levels |->
     CASE l = "debug" -> [classname |-> <<ESC, "[", "3", "6", "m">>,
                          status    |-> <<ESC, "[", "9", "6", "m">>,
                          message   |-> <<ESC, "[", "9", "6", "m">>]
       [] l = "info"  -> [classname |-> <<ESC, "[", "9", "0", "m">>,
                          status    |-> <<ESC, "[", "3", "7", "m">>,
                          message   |-> <<ESC, "[", "9", "7", "m">>]
       [] l = "warn"  -> [classname |-> <<ESC, "[", "3", "3", "m">>,
                          status    |-> <<ESC, "[", "9", "3", "m">>,
                          message   |-> <<ESC, "[", "9", "3", "m">>]
       [] l = "error" -> [classname |-> <<ESC, "[", "3", "1", "m">>,
                          status    |-> <<ESC, "[", "9", "1", "m">>,
                          message   |-> <<ESC, "[", "9", "1", "m">>]]

RESET == <<ESC, "[", "0", "m">>

LEVEL_NAMES ==
  [l \in Levels |->
     CASE l = "debug" -> <<"D", "e", "b", "u", "g">>
       [] l = "info"  -> <<"I", "n", "f", "o">>
       [] l = "warn"  -> <<"W", "a", "r", "n">>
       [] l = "error" -> <<"E", "r", "r", "o", "r">>]

STATE_COLUMN_WIDTH == 5

DefaultMaxClassNameLength == 20
DefaultLogFilePath == "./logs/monitor.log"

----------------------------------------------------------------------------
(* Construction                                                            *)

\* options.key ?? default
Opt(options, key, default) ==
  IF key \in DOMAIN options THEN options[key] ELSE default

\* the blank test without the trim
HasLabel_noTrim(className) == className # Undefined /\ className # <<>>

\* JavaScript truthiness of (className && className.trim())
HasLabel(className) ==
  className # Undefined /\ className # <<>> /\ Trim(className) # <<>>

\* the cut one character short
TruncateClassName_offByOne(className, maxLength) ==
  IF Len(className) > maxLength THEN Substring0(className, maxLength - 1)
  ELSE className

\* the label as stored: cut to maxLength when longer, else as given
TruncateClassName(className, maxLength) ==
  IF Len(className) > maxLength THEN Substring0(className, maxLength)
  ELSE className

\* new Monitor(className, options), syms being the four random draws
Construct(className, options, syms) ==
  LET maxLength == Opt(options, "maxClassNameLength", DefaultMaxClassNameLength)
      trimmed == IF HasLabel(className)
                 THEN TruncateClassName(className, maxLength) ELSE Null
      opts == [enableFileLogging  |-> Opt(options, "enableFileLogging", FALSE),
               logFilePath        |-> Opt(options, "logFilePath", DefaultLogFilePath),
               logLevel           |-> Opt(options, "logLevel", "debug"),
               disableConsole     |-> Opt(options, "disableConsole", FALSE),
               maxClassNameLength |-> maxLength]
  IN  [className        |-> trimmed,
       trimmedClassName |-> trimmed,
       classColumnWidth |-> IF HasLabel(className) THEN Len(trimmed) ELSE 0,
       hasClassColumn   |-> HasLabel(className),
       options          |-> opts,
       minLogLevel      |-> LOG_LEVEL_ORDER[opts.logLevel],
       symbols          |-> syms]

SymbolDraws == [time : SYMBOLS, classname : SYMBOLS, status : SYMBOLS, message : SYMBOLS]

----------------------------------------------------------------------------
(* The clock and the formatter                                             *)

\* the wall clock starts one second before midnight
ClockBase == 23 * 3600 + 59 * 60 + 59

\* getTimestamp() when the clock stands at tick t
GetTimestamp(t) ==
  LET secs == (ClockBase + t) % 86400
  IN  PadStart2(secs \div 3600) \o <<":">> \o PadStart2((secs \div 60) % 60)
        \o <<":">> \o PadStart2(secs % 60)

\* length of the match of /\x1b\[[0-9;]*m/ that starts at position p, 0 if none
RECURSIVE ParamsEnd(_, _)
ParamsEnd(text, q) ==
  IF q <= Len(text) /\ text[q] \in Digits \cup {";"} THEN ParamsEnd(text, q + 1)
  ELSE q

MatchLen(text, p) ==
  IF p + 1 <= Len(text) /\ text[p] = ESC /\ text[p + 1] = "["
  THEN LET q == ParamsEnd(text, p + 2)
       IN  IF q <= Len(text) /\ text[q] = "m" THEN q - p + 1 ELSE 0
  ELSE 0

\* text.replace(/\x1b\[[0-9;]*m/g, ''): one left-to-right pass
RECURSIVE StripFrom(_, _)
StripFrom(text, p) ==
  IF p > Len(text) THEN <<>>
  ELSE LET n == MatchLen(text, p)
       IN  IF n > 0 THEN StripFrom(text, p + n)
           ELSE <<text[p]>> \o StripFrom(text, p + 1)

\* the replace without the g flag: only the first match is removed
StripAnsiCodes_firstOnly(text) ==
  LET starts == {p \in 1..Len(text) : MatchLen(text, p) > 0}
  IN  IF starts = {} THEN text
      ELSE LET p == CHOOSE x \in starts : \A y \in starts : x <= y
           IN  SubSeq(text, 1, p - 1) \o SubSeq(text, p + MatchLen(text, p), Len(text))

StripAnsiCodes(text) == StripFrom(text, 1)

\* a symbol that is not the one the instance drew
Symbol_fixed(m, column) == "S1"

\* this.symbols[column]: the symbol the instance drew for a column
Symbol(m, column) == m.symbols[column]

\* formatMessage(level, message, withColor) of instance m, its getTimestamp()
\* call reading the clock at tick t
FormatMessage(m, level, message, withColor, t) ==
  LET timestamp == GetTimestamp(t)
      levelName == LEVEL_NAMES[level]
      colors == COLOR_SCHEMES[level]
      sp == <<" ">>
      timePart == TIME_COLOR \o timestamp \o RESET \o sp
                    \o SEPARATOR_COLOR \o <<Symbol(m, "time")>> \o RESET
      plainStatus == PadEnd(levelName, STATE_COLUMN_WIDTH)
      statusPart == colors.status \o plainStatus \o RESET \o sp
                      \o SEPARATOR_COLOR \o <<Symbol(m, "status")>> \o RESET
      messagePart == SEPARATOR_COLOR \o <<Symbol(m, "message")>> \o RESET \o sp
                       \o colors.message \o message \o RESET
  IN  IF ~withColor
      THEN IF m.hasClassColumn
           THEN timestamp \o sp \o PadEnd(m.trimmedClassName, m.classColumnWidth)
                  \o sp \o PadEnd(levelName, STATE_COLUMN_WIDTH) \o sp \o message
           ELSE timestamp \o sp \o PadEnd(levelName, STATE_COLUMN_WIDTH)
                  \o sp \o message
      ELSE IF m.hasClassColumn
           THEN LET classColumn ==
                      PadEnd(colors.classname \o m.trimmedClassName \o RESET,
                             m.classColumnWidth + Len(colors.classname) + Len(RESET))
                    classPart == classColumn \o sp \o SEPARATOR_COLOR
                                   \o <<Symbol(m, "classname")>> \o RESET
                IN  timePart \o sp \o classPart \o sp \o statusPart
                      \o sp \o messagePart
           ELSE timePart \o sp \o statusPart \o sp \o messagePart

\* the text writeToFile appends for the line it is handed
PlainMessage(message) == StripAnsiCodes(message) \o <<NL>>

----------------------------------------------------------------------------
(* The formatter applied to drawn inputs                                   *)

Inst == {1, 2}

NoOptions == [k \in {} |-> k]

LabelChars == {" ", "a"}
Labels == StringsUpTo(LabelChars, MaxLabelLen) \cup {Undefined}
Caps == (-1)..MaxCap

\* messages: short plain text, and text that carries escape sequences
EscapeMsgs ==
  {RESET, <<"x">> \o RESET \o <<"x">>,
   <<ESC, "[">> \o <<ESC, "[", "m">> \o <<"m">>}
Msgs == StringsUpTo({"x"}, MaxMsgLen) \cup EscapeMsgs

NoCall == [inst |-> 0]
NoFmt == [inst |-> 0]

FmtArgs ==
  [className : Labels, options : {NoOptions} \cup [maxClassNameLength : Caps]]

InitFmt ==
  /\ \E a \in FmtArgs :
       args = [i \in Inst |-> IF i = 1 THEN a
                              ELSE [className |-> Undefined, options |-> NoOptions]]
  /\ \E s \in SymbolDraws :
       monitor = [i \in Inst |-> Construct(args[i].className, args[i].options, s)]
  /\ chain = [i \in Inst |-> <<>>]
  /\ files = [p \in {} |-> <<>>]
  /\ console = <<>>
  /\ now = 0
  /\ ncalls = 0
  /\ nfaults = 0
  /\ lastCall = NoCall
  /\ unhandled = FALSE
  /\ fmt = NoFmt

\* both renderings of one (level, timestamp, message) tuple by instance 1, and
\* the text the append sink writes for the plain one
Format(level, message, t) ==
  /\ fmt = NoFmt
  /\ fmt' = [inst     |-> 1,
             level    |-> level,
             message  |-> message,
             t        |-> t,
             colored  |-> FormatMessage(monitor[1], level, message, TRUE, t),
             plain    |-> FormatMessage(monitor[1], level, message, FALSE, t),
             fileText |-> PlainMessage(FormatMessage(monitor[1], level, message, FALSE, t))]
  /\ UNCHANGED <<args, monitor, chain, files, console, now, ncalls, nfaults, lastCall, unhandled>>

NextFmt ==
  \E level \in Levels, message \in Msgs, t \in {0, MaxClock} : Format(level, message, t)

SpecFmt == InitFmt /\ [][NextFmt]_vars

----------------------------------------------------------------------------
(* The logger and its append chain                                         *)

\* the level filter at the head of log(): TRUE when the call is dropped
Suppressed_inclusive(m, level) == LOG_LEVEL_ORDER[level] <= m.minLogLevel

\* log() without its level filter
Suppressed_never(m, level) == FALSE

Suppressed(m, level) == LOG_LEVEL_ORDER[level] < m.minLogLevel

\* how the promise of writeToFile settles: its try/catch ends every path normally
WriteToFileSettle(error) == "fulfilled"

\* p.then(cb): cb runs only when p is fulfilled, a rejection of p passes through
ThenSettle(prev, cb) == IF prev = "rejected" THEN "rejected" ELSE cb

\* p.catch(() => {}): the empty handler turns a rejection into a fulfilment
CatchSettle(p) == "fulfilled"

\* the chain built without any error handling: a failed append rejects the tail
TailSettle_unguarded(prev, error) ==
  ThenSettle(prev, IF error THEN "rejected" ELSE "fulfilled")

\* a tail that stays pending once its append is over
TailSettle_pending(prev, error) == "pending"

\* how the new tail fileWritePromise.then(() => writeToFile(..)).catch(..) settles
TailSettle(prev, error) ==
  CatchSettle(ThenSettle(prev, WriteToFileSettle(error)))

\* the inputs of the log calls: two levels on instance 1, one on instance 2
SpecMsgs == {<<"x">>}
SpecLevels(i) == IF i = 1 THEN {"debug", "error"} ELSE {"info"}

\* a tail born settled
Job_settled(plainMessage) ==
  [message         |-> plainMessage,
   pc              |-> "queued",
   existingContent |-> <<>>,
   failed          |-> "none",
   ran             |-> FALSE,
   landed          |-> FALSE,
   tail            |-> "fulfilled"]

\* the append scheduled by log() and the new tail, a promise still pending
Job(plainMessage) ==
  [message         |-> plainMessage,
   pc              |-> "queued",
   existingContent |-> <<>>,
   failed          |-> "none",
   ran             |-> FALSE,
   landed          |-> FALSE,
   tail            |-> "pending"]

\* every append chained on a fresh resolved promise instead of on the tail
PrevTail_unchained(i, k) == "fulfilled"

\* the settled state of the tail that job k of instance i was chained on
PrevTail(i, k) == IF k = 1 THEN "fulfilled" ELSE chain[i][k - 1].tail

Pending(i) == {k \in 1..Len(chain[i]) : chain[i][k].pc # "done"}
HasCur(i) == Pending(i) # {}
Cur(i) == CHOOSE k \in Pending(i) : \A j \in Pending(i) : k <= j
CurJob(i) == chain[i][Cur(i)]

LogPath(i) == monitor[i].options.logFilePath

ErrorMsg(error) == <<"[Monitor] Failed to write to log file: ", error>>

\* the outer catch reporting whatever the console setting
ConsoleError_unconditional(m, i, error) ==
  <<[stream |-> "error", inst |-> i, text |-> ErrorMsg(error)]>>

\* the outer catch of writeToFile: what it puts on the console
ConsoleError(m, i, error) ==
  IF ~m.options.disableConsole
  THEN <<[stream |-> "error", inst |-> i, text |-> ErrorMsg(error)]>>
  ELSE <<>>

\* the constructor arguments: instance 1 has a label and draws its options,
\* its threshold from the set T; instance 2 has no label, writes the same
\* (default) path and keeps the console off
SpecArgs(T) ==
  [i \in Inst |->
     IF i = 1
     THEN [className : {<<"a">>},
           options : [enableFileLogging : BOOLEAN, logLevel : T,
                      disableConsole : BOOLEAN]]
     ELSE [className : {Undefined},
           options : {[enableFileLogging |-> TRUE, disableConsole |-> TRUE]}]]

\* one of the possible draws of the four symbols
SpecDraws ==
  {d \in SymbolDraws : d.time = "S1" /\ d.classname = "S2" /\ d.status = "S1"
                         /\ d.message = "S2"}

\* the state after both constructors have run, the clock standing at tick t0
InitAt(T, t0) ==
  /\ args \in [Inst -> UNION {SpecArgs(T)[i] : i \in Inst}]
  /\ \A i \in Inst : args[i] \in SpecArgs(T)[i]
  /\ \E s \in SpecDraws :
       monitor = [i \in Inst |-> Construct(args[i].className, args[i].options, s)]
  /\ chain = [i \in Inst |-> <<>>]
  /\ files = [p \in {} |-> <<>>]
  /\ console = <<>>
  /\ now = t0
  /\ ncalls = 0
  /\ nfaults = 0
  /\ lastCall = NoCall
  /\ unhandled = FALSE
  /\ fmt = NoFmt

InitArgs(T) == InitAt(T, 0)

Init == InitArgs({"debug", "warn"})

\* file logging taken as enabled whatever the options say
FileLoggingEnabled_always(m) == TRUE

\* the test of options.enableFileLogging, in log() and again in writeToFile
FileLoggingEnabled(m) == m.options.enableFileLogging

\* debug/info/warn/error(message) on instance i: log(level, message).  The two
\* formatMessage calls read the clock one after the other, at ticks t1 <= t2.
Log(i, level, message) ==
  /\ ncalls < MaxCalls
  /\ ncalls' = ncalls + 1
  /\ IF Suppressed(monitor[i], level)
     THEN /\ lastCall' = [inst |-> i, level |-> level, accepted |-> FALSE,
                          result |-> "void", clockReads |-> 0, formats |-> 0]
          /\ UNCHANGED <<chain, console, now>>
     ELSE \E t2 \in {t \in {now, now + 1} : t <= MaxClock} :
            LET coloredMessage == FormatMessage(monitor[i], level, message, TRUE, now)
                plainMessage == FormatMessage(monitor[i], level, message, FALSE, t2)
            IN  /\ now' = t2
                /\ console' =
                     IF ~monitor[i].options.disableConsole
                     THEN Append(console, [stream |-> "log", inst |-> i,
                                           text |-> coloredMessage])
                     ELSE console
                /\ chain' =
                     IF FileLoggingEnabled(monitor[i])
                     THEN [chain EXCEPT ![i] = Append(@, Job(plainMessage))]
                     ELSE chain
                /\ lastCall' = [inst |-> i, level |-> level, accepted |-> TRUE,
                                result |-> "void", clockReads |-> 2, formats |-> 2]
  /\ UNCHANGED <<args, monitor, files, nfaults, unhandled, fmt>>

\* the then-callback of job k runs once the tail it was chained on has
\* settled: writeToFile starts and calls file.exists().  Had that tail been
\* rejected, the callback would be skipped and the rejection passed on.
ThenCallback(i, k) ==
  /\ k \in Pending(i)
  /\ chain[i][k].pc = "queued"
  /\ PrevTail(i, k) # "pending"
  /\ LET prev == PrevTail(i, k)
     IN  IF prev = "fulfilled"
         THEN IF ~FileLoggingEnabled(monitor[i])
              THEN /\ chain' = [chain EXCEPT ![i][k].pc = "done",
                                             ![i][k].ran = TRUE,
                                             ![i][k].tail = TailSettle(prev, FALSE)]
                   /\ UNCHANGED unhandled
              ELSE /\ chain' = [chain EXCEPT ![i][k].pc = "exists",
                                             ![i][k].ran = TRUE]
                   /\ UNCHANGED unhandled
         ELSE /\ chain' = [chain EXCEPT ![i][k].pc = "done",
                                        ![i][k].tail = TailSettle(prev, FALSE)]
              /\ unhandled' =
                   (unhandled \/ (TailSettle(prev, FALSE) = "rejected"
                                    /\ k = Len(chain[i])))
  /\ UNCHANGED <<args, monitor, files, console, now, ncalls, nfaults, lastCall, fmt>>

\* await file.exists() returns
ExistsOk(i, k) ==
  /\ k \in Pending(i)
  /\ chain[i][k].pc = "exists"
  /\ chain' = [chain EXCEPT ![i][k].pc =
                 IF LogPath(i) \in DOMAIN files THEN "text" ELSE "write"]
  /\ UNCHANGED <<args, monitor, files, console, now, ncalls, nfaults, lastCall, unhandled, fmt>>

\* await file.exists() throws: the inner catch leaves existingContent empty
ExistsFail(i, k) ==
  /\ k \in Pending(i)
  /\ chain[i][k].pc = "exists"
  /\ nfaults < MaxFaults
  /\ nfaults' = nfaults + 1
  /\ chain' = [chain EXCEPT ![i][k].pc = "write",
                            ![i][k].failed = "exists"]
  /\ UNCHANGED <<args, monitor, files, console, now, ncalls, lastCall, unhandled, fmt>>

\* await file.text() returns the content the file has now
TextOk(i, k) ==
  /\ k \in Pending(i)
  /\ chain[i][k].pc = "text"
  /\ chain' = [chain EXCEPT ![i][k].pc = "write",
                            ![i][k].existingContent = files[LogPath(i)]]
  /\ UNCHANGED <<args, monitor, files, console, now, ncalls, nfaults, lastCall, unhandled, fmt>>

\* await file.text() throws: the inner catch leaves existingContent empty
TextFail(i, k) ==
  /\ k \in Pending(i)
  /\ chain[i][k].pc = "text"
  /\ nfaults < MaxFaults
  /\ nfaults' = nfaults + 1
  /\ chain' = [chain EXCEPT ![i][k].pc = "write",
                            ![i][k].failed = "text"]
  /\ UNCHANGED <<args, monitor, files, console, now, ncalls, lastCall, unhandled, fmt>>

\* the content Bun.write puts in the file
WrittenContent(existingContent, message) == existingContent \o PlainMessage(message)

\* the tail of job k settles once its writeToFile is over
SettleJob(i, k, error, landed) ==
  LET t == TailSettle(PrevTail(i, k), error)
  IN  /\ chain' = [chain EXCEPT ![i][k].pc = "done",
                                ![i][k].failed = IF error THEN "write" ELSE @,
                                ![i][k].landed = landed,
                                ![i][k].tail = t]
      /\ unhandled' = (unhandled \/ (t = "rejected" /\ k = Len(chain[i])))

\* await Bun.write(logPath, existingContent + plainMessage) succeeds
WriteOk(i, k) ==
  /\ k \in Pending(i)
  /\ chain[i][k].pc = "write"
  /\ files' = [p \in DOMAIN files \cup {LogPath(i)} |->
                 IF p = LogPath(i)
                 THEN WrittenContent(chain[i][k].existingContent, chain[i][k].message)
                 ELSE files[p]]
  /\ SettleJob(i, k, FALSE,
               Contains(WrittenContent(chain[i][k].existingContent, chain[i][k].message),
                        PlainMessage(chain[i][k].message)))
  /\ UNCHANGED <<args, monitor, console, now, ncalls, nfaults, lastCall, fmt>>

\* await Bun.write(..) throws: the outer catch reports on the console, when
\* the console is enabled, and the file is left as it was
WriteFail(i, k) ==
  /\ k \in Pending(i)
  /\ chain[i][k].pc = "write"
  /\ nfaults < MaxFaults
  /\ nfaults' = nfaults + 1
  /\ console' = console \o ConsoleError(monitor[i], i, "EIO")
  /\ SettleJob(i, k, TRUE, FALSE)
  /\ UNCHANGED <<args, monitor, files, now, ncalls, lastCall, fmt>>

\* the appends instance i has scheduled so far
Jobs(i) == 1..Len(chain[i])

ChainStep(i) ==
  \E k \in Jobs(i) :
    \/ ThenCallback(i, k)
    \/ ExistsOk(i, k)
    \/ ExistsFail(i, k)
    \/ TextOk(i, k)
    \/ TextFail(i, k)
    \/ WriteOk(i, k)
    \/ WriteFail(i, k)

Next ==
  \/ \E i \in Inst : \E level \in SpecLevels(i), message \in SpecMsgs :
       Log(i, level, message)
  \/ \E i \in Inst : \E k \in Jobs(i) : ThenCallback(i, k)
  \/ \E i \in Inst : \E k \in Jobs(i) : ExistsOk(i, k)
  \/ \E i \in Inst : \E k \in Jobs(i) : ExistsFail(i, k)
  \/ \E i \in Inst : \E k \in Jobs(i) : TextOk(i, k)
  \/ \E i \in Inst : \E k \in Jobs(i) : TextFail(i, k)
  \/ \E i \in Inst : \E k \in Jobs(i) : WriteOk(i, k)
  \/ \E i \in Inst : \E k \in Jobs(i) : WriteFail(i, k)

Spec == Init /\ [][Next]_vars

\* a synchronous burst of log calls: no callback of the chain runs before the
\* burst is over.  Every threshold, every level.
InitBurst == InitArgs(Levels)

NextBurst ==
  \E i \in Inst, level \in Levels, message \in SpecMsgs : Log(i, level, message)

SpecBurst == InitBurst /\ [][NextBurst]_vars

\* the event loop runs every ready callback and every file operation ends
FairSpec == Spec /\ \A i \in Inst : WF_vars(ChainStep(i))

\* the same under one threshold, the clock not passing a second boundary
InitLive == InitAt({"warn"}, MaxClock)

SpecLive == InitLive /\ [][Next]_vars /\ \A i \in Inst : WF_vars(ChainStep(i))

----------------------------------------------------------------------------
(* Properties of the logger and of its append chain (Spec, FairSpec)       *)

JobIds == {ik \in Inst \X (1..(MaxCalls + 1)) : ik[2] <= Len(chain[ik[1]])}

AllDone(i) == \A k \in 1..Len(chain[i]) : chain[i][k].pc = "done"

\* the lines handed to the append sink by instance i, in program order
LinesOf(i) == Flatten([k \in 1..Len(chain[i]) |-> PlainMessage(chain[i][k].message)])

\* the positions at which the newline-terminated line occurs whole in content
LineStarts(content, line) ==
  {p \in 1..(Len(content) - Len(line) + 1) :
     /\ SubSeq(content, p, p + Len(line) - 1) = line
     /\ (p = 1 \/ content[p - 1] = NL)}

CountLine(content, line) == Cardinality(LineStarts(content, line))

\* the whole lines of a content that ends with a newline (or is empty)
WholeLines(content) ==
  {SubSeq(content, p, q) : p \in 1..Len(content), q \in 1..Len(content)} \cap
  {l \in {SubSeq(content, p, q) : p \in 1..Len(content), q \in 1..Len(content)} :
     /\ l # <<>>
     /\ l[Len(l)] = NL
     /\ \A x \in 1..(Len(l) - 1) : l[x] # NL}

FileContent(i) == IF LogPath(i) \in DOMAIN files THEN files[LogPath(i)] ELSE <<>>

\* C1: when one instance alone has issued N >= 1 accepted log calls, every
\* write has succeeded and all its appends are over, the file holds exactly
\* those N lines in program order.
C1_FileHoldsLinesInOrder ==
  \A i \in Inst :
    ( /\ Len(chain[i]) >= 1
      /\ AllDone(i)
      /\ \A j \in Inst \ {i} : chain[j] = <<>>
      /\ \A k \in 1..Len(chain[i]) : chain[i][k].failed # "write" )
    => FileContent(i) = LinesOf(i)

\* C2: no log call throws or returns a failure, no rejection is left
\* unhandled, and every append that is over, failed or not, has left the
\* tail of the chain fulfilled.
C2_LogNeverThrows ==
  /\ ~unhandled
  /\ lastCall.inst # 0 => lastCall.result = "void"
  /\ \A ik \in JobIds :
       LET job == chain[ik[1]][ik[2]]
       IN  /\ job.tail # "rejected"
           /\ job.pc = "done" => job.tail = "fulfilled"

\* C2 witness: an append failed in its write, and the next log call of the
\* same instance was served by a second append
C2_Witness ==
  \E i \in Inst :
    /\ Len(chain[i]) >= 2
    /\ chain[i][1].failed = "write"
    /\ chain[i][2].pc = "done"
    /\ chain[i][2].ran

\* the levels that a threshold lets through, debug < info < warn < error
AtLeast(T) ==
  CASE T = "debug" -> {"debug", "info", "warn", "error"}
    [] T = "info"  -> {"info", "warn", "error"}
    [] T = "warn"  -> {"warn", "error"}
    [] T = "error" -> {"error"}

\* C3: a log call at level L puts exactly one line on the console if L is at
\* or above the threshold and the console is enabled, and nothing otherwise;
\* it hands exactly one line to the append sink if L is at or above the
\* threshold and file logging is enabled, and nothing otherwise.
C3_LevelAndSinkFilter ==
  [][ncalls' = ncalls + 1 =>
       LET i == lastCall'.inst
           L == lastCall'.level
           o == monitor[i].options
           pass == L \in AtLeast(o.logLevel)
           toConsole == pass /\ ~o.disableConsole
           toFile == pass /\ o.enableFileLogging
       IN  /\ Len(console') = Len(console) + (IF toConsole THEN 1 ELSE 0)
           /\ toConsole =>
                /\ SubSeq(console', 1, Len(console)) = console
                /\ console'[Len(console')].stream = "log"
                /\ Contains(console'[Len(console')].text, LEVEL_NAMES[L])
           /\ Len(chain'[i]) = Len(chain[i]) + (IF toFile THEN 1 ELSE 0)
           /\ toFile =>
                /\ SubSeq(chain'[i], 1, Len(chain[i])) = chain[i]
                /\ Contains(chain'[i][Len(chain'[i])].message, LEVEL_NAMES[L])
                /\ CountLine(PlainMessage(chain'[i][Len(chain'[i])].message),
                             PlainMessage(chain'[i][Len(chain'[i])].message)) = 1
           /\ \A j \in Inst \ {i} : chain'[j] = chain[j]
           /\ files' = files
     ]_vars

\* C3 witness: with threshold warn, two calls on instance 1: one suppressed,
\* and an accepted warn call that reached the console and the append sink
C3_Witness ==
  /\ lastCall.inst = 1
  /\ lastCall.level = "warn"
  /\ monitor[1].options.logLevel = "warn"
  /\ ~monitor[1].options.disableConsole
  /\ monitor[1].options.enableFileLogging
  /\ ncalls = 2
  /\ Len(console) = 1
  /\ Len(chain[1]) = 1
  /\ chain[2] = <<>>

\* the chain of instance i can take a step: its first pending append is in
\* a file operation, or is queued behind a tail that has settled
CanStep(i) ==
  /\ HasCur(i)
  /\ CurJob(i).pc = "queued" => PrevTail(i, Cur(i)) # "pending"

\* CanStep is the enabling condition of ChainStep
CanStepIsEnabled == \A i \in Inst : CanStep(i) <=> ENABLED ChainStep(i)

\* some append of instance i before its k-th is over and has failed
FailedBefore(i, k) ==
  /\ k <= Len(chain[i])
  /\ \E j \in 1..(k - 1) : chain[i][j].pc = "done" /\ chain[i][j].failed # "none"

\* the k-th append of instance i was started, is over, and if its write
\* succeeded its line was in the file
RanToCompletion(i, k) ==
  /\ k <= Len(chain[i])
  /\ chain[i][k].pc = "done"
  /\ chain[i][k].ran
  /\ chain[i][k].failed # "write" => chain[i][k].landed

\* C4: once an append of an instance has failed, every later append of that
\* instance is still started and runs to completion, and if it succeeds its
\* line is in the file: a later append that is over was started and not
\* skipped, and while one is not over the chain of the instance can take a
\* step (each step brings the append nearer to its end).
C4_ChainSurvivesFailure ==
  \A i \in Inst : \A k \in 1..(MaxCalls + 1) :
    FailedBefore(i, k) =>
      /\ chain[i][k].pc = "done" => RanToCompletion(i, k)
      /\ chain[i][k].pc # "done" =>
           /\ HasCur(i)
           /\ Cur(i) <= k
           /\ CanStep(i)

\* C4 witness: an append that followed a failed one has put its line in the file
C4_Witness ==
  \E i \in Inst :
    /\ FailedBefore(i, 2)
    /\ RanToCompletion(i, 2)
    /\ chain[i][2].landed
    /\ CountLine(FileContent(i), PlainMessage(chain[i][2].message)) >= 1

\* C5: when an append in which some step failed comes to its end, every line
\* that was in the file before is still in the file.
C5_FailureKeepsContent ==
  [][\A i \in Inst :
       ( /\ HasCur(i)
         /\ CurJob(i).pc = "write"
         /\ chain'[i][Cur(i)].pc = "done"
         /\ chain'[i][Cur(i)].failed # "none" )
       => \A l \in WholeLines(FileContent(i)) :
            CountLine(FileContent(i)', l) >= CountLine(FileContent(i), l)
     ]_vars

\* C6: once all appends of two instances that write the same path are over,
\* none of them having failed, every line accepted by either instance is in
\* the file, whole.
C6_AllLinesKept ==
  ( /\ \A i \in Inst : AllDone(i) /\ chain[i] # <<>>
    /\ \A i, j \in Inst : LogPath(i) = LogPath(j)
    /\ \A ik \in JobIds : chain[ik[1]][ik[2]].failed = "none" )
  => \A ik \in JobIds :
       LET l == PlainMessage(chain[ik[1]][ik[2]].message)
       IN  CountLine(FileContent(ik[1]), l) >=
             Cardinality({jk \in JobIds : PlainMessage(chain[jk[1]][jk[2]].message) = l})

\* the diagnostics on the console that instance i has emitted
ErrorsOf(i) == {p \in 1..Len(console) : console[p].stream = "error" /\ console[p].inst = i}

\* the appends of instance i that are over and have failed in their write
FailedWrites(i) ==
  {k \in 1..Len(chain[i]) : chain[i][k].pc = "done" /\ chain[i][k].failed = "write"}

\* C11: a failed append emits at most one diagnostic, on the console and only
\* when the console is enabled, and nothing anywhere when the console is
\* disabled; the console line of the log call behind it and of every later
\* log call is still delivered when the console is enabled.
C11_FailureDiagnostics ==
  [][/\ SubSeq(console', 1, Len(console)) = console
     /\ \A i \in Inst :
          LET off == monitor[i].options.disableConsole
              fails == FailedWrites(i)' \ FailedWrites(i)
          IN  /\ Cardinality(ErrorsOf(i)') <= Cardinality(FailedWrites(i)')
              /\ off => ErrorsOf(i)' = {}
              /\ fails # {} =>
                   /\ files' = files
                   /\ Len(console') = Len(console) + (IF off THEN 0 ELSE 1)
                   /\ ~off => /\ console'[Len(console')].stream = "error"
                              /\ console'[Len(console')].inst = i
              /\ ( /\ ncalls' = ncalls + 1
                   /\ lastCall'.inst = i
                   /\ lastCall'.accepted
                   /\ ~off )
                 => /\ Len(console') = Len(console) + 1
                    /\ console'[Len(console')].stream = "log"
                    /\ console'[Len(console')].inst = i
                    /\ Contains(console'[Len(console')].text, LEVEL_NAMES[lastCall'.level])
    ]_vars

\* C11 witness: with the console enabled, the append of a log call has failed
\* and was reported once, after the line of its own call, and the line of a
\* later log call has followed
C11_Witness ==
  /\ Len(console) = 3
  /\ console[1].stream = "log"
  /\ console[2].stream = "error"
  /\ console[3].stream = "log"
  /\ \A p \in 1..3 : console[p].inst = 1
  /\ FailedWrites(1) = {1}

\* the hh:mm:ss that opens a rendered line
TimestampOf(line) == SubSeq(StripAnsiCodes(line), 1, 8)

\* C12: the decorated line an accepted log call puts on the console and the
\* plain line it hands to the append sink carry the same timestamp, even
\* when the clock advances during the call.
C12_OneTimestampPerCall ==
  [][\A i \in Inst :
       ( /\ ncalls' = ncalls + 1
         /\ lastCall'.inst = i
         /\ lastCall'.accepted
         /\ ~monitor[i].options.disableConsole
         /\ monitor[i].options.enableFileLogging )
       => TimestampOf(console'[Len(console')].text) =
            TimestampOf(chain'[i][Len(chain'[i])].message)
    ]_vars

\* the appends of instance i between their start and their end
Active(i) == {k \in Jobs(i) : chain[i][k].pc \in {"exists", "text", "write"}}

\* C13: at most one append of an instance is between its start and its end,
\* and while one is, no other append of the same instance starts, reads or
\* writes the file.
C13_MutualExclusion ==
  [][\A i \in Inst :
       /\ Cardinality(Active(i)') <= 1
       /\ \A k \in Active(i) :
            /\ chain'[i][k].pc = "done" \/ Active(i)' = {k}
            /\ \A j \in Jobs(i) \ {k} : chain'[i][j] = chain[i][j]
    ]_vars

\* C13 witness: with a second append queued behind it, the first append of
\* an instance has looked for the file and is about to write it
C13_Witness ==
  \E i \in Inst :
    /\ Len(chain[i]) = 2
    /\ chain[i][1].pc = "write"
    /\ chain[i][1].failed = "none"
    /\ chain[i][2].pc = "queued"

\* C14: a log call below the threshold of its instance is a no-op: it reads
\* no clock, formats nothing, puts nothing on the console, schedules no
\* append, and leaves the chain and every field of the instance unchanged.
C14_SuppressedIsNoOp ==
  [][( /\ ncalls' = ncalls + 1
       /\ lastCall'.level \notin AtLeast(monitor[lastCall'.inst].options.logLevel) )
     => /\ lastCall'.clockReads = 0
        /\ lastCall'.formats = 0
        /\ UNCHANGED <<args, monitor, chain, files, console, now, nfaults, unhandled, fmt>>
    ]_vars

\* C14 witness: an instance that has served an accepted call has then
\* dropped a call below its threshold
C14_Witness ==
  /\ ncalls = 2
  /\ lastCall.inst = 1
  /\ ~lastCall.accepted
  /\ lastCall.level = "info"
  /\ monitor[1].options.logLevel = "warn"
  /\ Len(chain[1]) = 1
  /\ Len(console) = 1

\* every append scheduled so far has been started and is over
Idle == \A i \in Inst : \A k \in Jobs(i) : chain[i][k].pc = "done" /\ chain[i][k].ran

\* C15: when every file operation eventually ends, the chains are idle again
\* and again: every append scheduled by an accepted log call is eventually
\* started and eventually over, however many are queued before it, and once
\* the log calls stop the chains stay idle.
C15_EveryAppendFinishes == []<>Idle

\* C15 witness: two appends of one instance, the second scheduled behind the
\* first, have both been started and are over, no file operation having failed
C15_Witness ==
  \E i \in Inst :
    /\ Len(chain[i]) = 2
    /\ Idle
    /\ nfaults = 0
    /\ \A k \in Jobs(i) : chain[i][k].landed

\* the tail of the chain of instance i: fileWritePromise
FileWritePromise(i) == IF chain[i] = <<>> THEN PrevTail(i, 1) ELSE chain[i][Len(chain[i])].tail

\* C16: the tail of the chain is resolved at construction; the tail made by
\* a log call is settled only once the tail before it is settled and the
\* append of that call is over, failed or not; and a tail settles as
\* fulfilled, never as rejected.
C16_TailLifecycle ==
  \A i \in Inst :
    /\ chain[i] = <<>> => FileWritePromise(i) = "fulfilled"
    /\ \A k \in Jobs(i) :
         LET job == chain[i][k]
             before == IF k = 1 THEN "fulfilled" ELSE chain[i][k - 1].tail
         IN  /\ job.tail \in {"pending", "fulfilled"}
             /\ job.tail # "pending" => (before # "pending" /\ job.pc = "done")
             /\ job.pc = "done" => job.tail = "fulfilled"

\* C16 witness: the tail of an append that failed in its write is fulfilled,
\* and the tail of the append started behind it is still pending
C16_Witness ==
  \E i \in Inst :
    /\ Len(chain[i]) = 2
    /\ chain[i][1].failed = "write"
    /\ chain[i][1].tail = "fulfilled"
    /\ chain[i][2].pc = "exists"
    /\ chain[i][2].tail = "pending"

\* the instances built with file logging enabled
FileInst == {i \in Inst : monitor[i].options.enableFileLogging}

\* C17: nothing on disk is read, written or created except by the append of
\* an accepted log call of an instance with file logging enabled:
\* construction leaves the disk untouched, and an instance with file logging
\* disabled never starts a file operation.
C17_FileIoOnlyFromEnabledLog ==
  [][/\ ncalls = 0 => (files = [p \in {} |-> <<>>] /\ \A i \in Inst : chain[i] = <<>>)
     /\ \A i \in Inst \ FileInst : chain'[i] = <<>>
     /\ DOMAIN files' \subseteq {LogPath(i) : i \in FileInst}
     /\ \A i \in Inst :
          Len(chain'[i]) > Len(chain[i]) =>
            /\ ncalls' = ncalls + 1
            /\ lastCall'.inst = i
            /\ lastCall'.accepted
            /\ lastCall'.level \in AtLeast(monitor[i].options.logLevel)
     /\ files' # files =>
          \E i \in FileInst : \E k \in Jobs(i) :
            /\ chain[i][k].pc = "write"
            /\ chain'[i][k].pc = "done"
            /\ \A p \in DOMAIN files' \ {LogPath(i)} : p \in DOMAIN files /\ files'[p] = files[p]
    ]_vars

\* C17 witness: an instance with file logging disabled has served an accepted
\* log call and the only file on disk is the one another instance wrote
C17_Witness ==
  /\ 1 \notin FileInst
  /\ lastCall.inst = 1
  /\ lastCall.accepted
  /\ chain[1] = <<>>
  /\ DOMAIN files = {LogPath(2)}
  /\ chain[2][1].landed

\* the decorated line carries the four symbols of instance m in its columns
CarriesSymbolsOf(m, line) ==
  LET D == StripAnsiCodes(line)
      w == IF m.hasClassColumn THEN m.classColumnWidth + 1 ELSE 0
  IN  /\ D[10] = m.symbols.time
      /\ m.hasClassColumn => D[12 + w] = m.symbols.classname
      /\ D[(IF m.hasClassColumn THEN 20 ELSE 18) + w] = m.symbols.status
      /\ D[(IF m.hasClassColumn THEN 22 ELSE 20) + w] = m.symbols.message

\* C18: no step changes the label, the label column width, the threshold,
\* the sink flags, the file path or the symbols of an instance; every line on
\* the console carries the symbols its instance drew at construction; and a
\* log call changes nothing of an instance but the chain of the one called.
C18_ConfigurationWriteOnce ==
  [][/\ monitor' = monitor
     /\ args' = args
     /\ \A p \in 1..Len(console') :
          console'[p].stream = "log" =>
            CarriesSymbolsOf(monitor[console'[p].inst], console'[p].text)
     /\ ncalls' = ncalls + 1 =>
          \A j \in Inst \ {lastCall'.inst} : chain'[j] = chain[j]
    ]_vars

\* C18 witness: one instance has put two lines of different levels on the
\* console, the second one after the append of the first was over
C18_Witness ==
  /\ Len(console) = 2
  /\ console[1].stream = "log" /\ console[2].stream = "log"
  /\ console[1].inst = 1 /\ console[2].inst = 1
  /\ Contains(console[1].text, LEVEL_NAMES["debug"])
  /\ Contains(console[2].text, LEVEL_NAMES["error"])
  /\ Len(chain[1]) = 2
  /\ chain[1][1].pc = "done"

----------------------------------------------------------------------------
(* Properties of the formatter and of construction (SpecFmt)               *)

Formatted == fmt.inst # 0

\* some escape sequence /\x1b\[[0-9;]*m/ occurs in text
HasAnsi(text) == \E p \in 1..Len(text) : MatchLen(text, p) > 0

\* C7: the text written to the log file contains no ANSI escape sequence,
\* whatever the level, the label and the message (a message that itself
\* carries escape sequences included).
C7_FileTextHasNoAnsi == Formatted => ~HasAnsi(fmt.fileText)

NonBlank(className) ==
  className # Undefined /\ \E p \in 1..Len(className) : className[p] # " "

C10_NoLabelColumn ==
  \A i \in Inst :
    LET m == monitor[i]
    IN  ~NonBlank(args[i].className) =>
          /\ ~m.hasClassColumn
          /\ m.classColumnWidth = 0
          /\ (Formatted /\ fmt.inst = i) =>
               LET ts == GetTimestamp(fmt.t)
                   lvl == PadEnd(LEVEL_NAMES[fmt.level], STATE_COLUMN_WIDTH)
               IN  /\ fmt.plain = ts \o <<" ">> \o lvl \o <<" ">> \o fmt.message
                   /\ StripAnsiCodes(fmt.colored) =
                        ts \o <<" ", m.symbols.time, " ">> \o lvl
                           \o <<" ", m.symbols.status, " ", m.symbols.message, " ">>
                           \o StripAnsiCodes(fmt.message)
                   /\ Len(fmt.colored) =
                        Len(ts) + Len(lvl) + Len(fmt.message) + 5 + 3
                          + Len(TIME_COLOR) + 3 * Len(SEPARATOR_COLOR)
                          + Len(COLOR_SCHEMES[fmt.level].status)
                          + Len(COLOR_SCHEMES[fmt.level].message) + 6 * Len(RESET)

\* C10 witness: an instance built with a whitespace-only label has rendered a line
C10_Witness ==
  /\ Formatted
  /\ fmt.inst = 1
  /\ args[1].className = <<" ", " ">>

\* C19: the label is trimmed before it is truncated and measured: for a
\* label with whitespace around a non-blank core and a cap N >= 1, the stored
\* and rendered label and the label column width are those of the trimmed
\* label, so the rendered label neither starts nor ends with whitespace.
C19_LabelTrimmedFirst ==
  \A i \in Inst :
    LET c == args[i].className
        N == monitor[i].options.maxClassNameLength
        m == monitor[i]
        core == Trim(c)
        expected == IF Len(core) > N THEN SubSeq(core, 1, N) ELSE core
    IN  (NonBlank(c) /\ N >= 1) =>
          /\ m.hasClassColumn
          /\ m.trimmedClassName = expected
          /\ m.classColumnWidth = Len(expected)
          /\ m.trimmedClassName[1] # " "
          /\ (Formatted /\ fmt.inst = i) =>
               /\ SubSeq(fmt.plain, 10, 9 + Len(expected)) = expected
               /\ Len(fmt.plain) = 9 + Len(expected) + 1 + 6 + Len(fmt.message)

\* C20: for every label and every integer cap, zero and negative caps
\* included, the label column width is 0 exactly when the instance has no
\* label column, and with a label column the width is at least 1, at most
\* the cap, and the length of the rendered label.
C20_WidthBounds ==
  \A i \in Inst :
    LET m == monitor[i]
        N == m.options.maxClassNameLength
    IN  /\ m.classColumnWidth = 0 <=> ~m.hasClassColumn
        /\ m.hasClassColumn =>
             /\ 1 <= m.classColumnWidth
             /\ m.classColumnWidth <= N
             /\ m.classColumnWidth = Len(m.trimmedClassName)
             /\ (Formatted /\ fmt.inst = i) =>
                  Len(fmt.plain) = 9 + m.classColumnWidth + 1 + 6 + Len(fmt.message)

\* C21: stripAnsiCodes is idempotent and complete in one pass: stripping the
\* stripped text changes nothing, and the stripped text holds no escape
\* sequence, also when removing one sequence joins the text around it into
\* a new one.
C21_StripIdempotentAndComplete ==
  Formatted =>
    LET once == StripAnsiCodes(fmt.plain)
    IN  /\ StripAnsiCodes(once) = once
        /\ ~HasAnsi(once)
        /\ fmt.fileText = once \o <<NL>>

====
